---- MODULE Spec2Model ----
(***************************************************************************)
(* The recipe catalog service of src/main.py: one SQLite table `recipes`   *)
(* (INTEGER PRIMARY KEY AUTOINCREMENT), reseeded at every startup, and     *)
(* five FastAPI route handlers over it.                                    *)
(*                                                                         *)
(* Three specifications share the state and the SQL operators:             *)
(*   Spec       one request at a time, every storage statement succeeds    *)
(*              unless the bound value does not fit an SQLite INTEGER;     *)
(*   SpecFault  one request at a time, any storage statement may raise;    *)
(*   SpecConc   worker threads interleave at SQL-statement granularity.    *)
(***************************************************************************)
EXTENDS Integers, Sequences, FiniteSets, TLC

VARIABLES
    table,        \* rows of `recipes`: a function from the ids present to rows
    seq,          \* sqlite_sequence entry of `recipes` (0: no entry)
    clock,        \* the local wall clock, in ticks
    req,          \* the step that was taken last: a request, a startup (with the
                  \* ids it found in the table) or a step of the clock
    resp,         \* the HTTP response of the last request
    connOpen,     \* whether the connection of the last handler call was left open
    everPresent,  \* history: the ids that were in the table since the last startup
    removed,      \* history: the ids a DELETE removed since the last startup
    thr           \* SpecConc: the local state of every worker thread

vars == <<table, seq, clock, req, resp, connOpen, everPresent, removed, thr>>

----------------------------------------------------------------------------
(* Bounds of the model.                                                    *)

\* The largest id the model lets AUTOINCREMENT issue.
MaxId == 4

\* The instant (seconds after the first seed timestamp) of the earliest
\* clock reading the model draws.
ClockStart == 100000

\* The resolution of the clock readings, in readings per second.
TicksPerSecond == 2

\* The worker threads that serve requests at the same time.
NumThreads == 2

----------------------------------------------------------------------------
(* Values.  A string is a sequence of characters; an integer is its        *)
(* canonical decimal numeral (a sequence of digit characters), so that the *)
(* 64-bit range of an SQLite INTEGER is kept without scaling.              *)

Digits == <<"0", "1", "2", "3", "4", "5", "6", "7", "8", "9">>

DigitSet == {Digits[i] : i \in 1..10}

DigitVal(c) == (CHOOSE i \in 1..10 : Digits[i] = c) - 1

IsNumeral(s) == Len(s) > 0 /\ \A i \in 1..Len(s) : s[i] \in DigitSet

RECURSIVE StripZeros(_)
StripZeros(s) ==
    IF Len(s) > 1 /\ s[1] = "0" THEN StripZeros(Tail(s)) ELSE s

RECURSIVE LexLeq(_, _)
\* a <= b for numerals of the same length
LexLeq(a, b) ==
    IF Len(a) = 0 THEN TRUE
    ELSE IF DigitVal(a[1]) < DigitVal(b[1]) THEN TRUE
    ELSE IF DigitVal(a[1]) > DigitVal(b[1]) THEN FALSE
    ELSE LexLeq(Tail(a), Tail(b))

\* 2^63 - 1, the largest value of an SQLite INTEGER
Int64Max ==
    <<"9","2","2","3","3","7","2","0","3","6","8","5","4","7","7","5","8","0","7">>

\* sqlite3 binds a Python int only if it fits 64 bits (else OverflowError)
FitsSqliteInt(n) ==
    \/ Len(n) < Len(Int64Max)
    \/ Len(n) = Len(Int64Max) /\ LexLeq(n, Int64Max)

None == [none |-> TRUE]

Max(a, b) == IF a >= b THEN a ELSE b

----------------------------------------------------------------------------
(* JSON request bodies and their validation by the RecipeCreate model.     *)

JStr(s) == [t |-> "str", v |-> s]
JInt(n) == [t |-> "int", v |-> n]

Fields == {"title", "making_time", "serves", "ingredients", "cost"}

\* a str field accepts a JSON string
StrFieldOk(j) == j.t = "str"

\* an int field accepts a JSON integer and, the model not being strict, a
\* JSON string that is a decimal numeral, which it converts
IntFieldOk(j) == j.t = "int" \/ (j.t = "str" /\ IsNumeral(j.v))

IntFieldValue(j) == IF j.t = "int" THEN j.v ELSE StripZeros(j.v)

FieldError(body, f) ==
    IF f \notin DOMAIN body THEN "missing"
    ELSE IF f = "cost"
         THEN IF IntFieldOk(body[f]) THEN "ok" ELSE "int_parsing"
         ELSE IF StrFieldOk(body[f]) THEN "ok" ELSE "string_type"

ValidationErrors(body) ==
    {<<f, FieldError(body, f)>> : f \in {g \in Fields : FieldError(body, g) # "ok"}}

RecipeCreateValid(body) == ValidationErrors(body) = {}

RecipeCreate(body) ==
    [title       |-> body["title"].v,
     making_time |-> body["making_time"].v,
     serves      |-> body["serves"].v,
     ingredients |-> body["ingredients"].v,
     cost        |-> IntFieldValue(body["cost"])]

validation_exception_handler(body) ==
    [status |-> 400, message |-> "Recipe creation failed!",
     detail |-> ValidationErrors(body)]

----------------------------------------------------------------------------
(* The storage: the table, its seed and the SQL statements.                *)

Row(id, r, created, updated) ==
    [id |-> id, title |-> r.title, making_time |-> r.making_time,
     serves |-> r.serves, ingredients |-> r.ingredients, cost |-> r.cost,
     created_at |-> created, updated_at |-> updated]

\* '2016-01-10 12:10:12' and '2016-01-11 13:10:12' as seconds after the first
Seed1Time == 0
Seed2Time == 90000

initial_data ==
    << Row(1, [title |-> <<"chicken curry">>, making_time |-> <<"45 min">>,
               serves |-> <<"4 people">>,
               ingredients |-> <<"onion", "meat", "spice">>,
               cost |-> <<"1","0","0","0">>], Seed1Time, Seed1Time),
       Row(2, [title |-> <<"omelette rice">>, making_time |-> <<"30 min">>,
               serves |-> <<"2 people">>,
               ingredients |-> <<"onion", "egg", "spice", "soy sauce">>,
               cost |-> <<"7","0","0">>], Seed2Time, Seed2Time) >>

EmptyTable == [i \in {} |-> None]

SetMax(S) == IF S = {} THEN 0 ELSE CHOOSE m \in S : \A x \in S : x <= m

\* INSERT with an explicit id: the row is stored under it and the
\* AUTOINCREMENT sequence is raised to it
InsertWithId(db, row) ==
    [table |-> [i \in DOMAIN db.table \cup {row.id} |->
                   IF i = row.id THEN row ELSE db.table[i]],
     seq   |-> Max(db.seq, row.id)]

RECURSIVE ExecuteMany(_, _)
ExecuteMany(db, rows) ==
    IF rows = <<>> THEN db
    ELSE ExecuteMany(InsertWithId(db, Head(rows)), Tail(rows))

\* DROP TABLE IF EXISTS removes the rows and the table's sqlite_sequence entry
DropTable(db) == [table |-> EmptyTable, seq |-> 0]

\* the seed rows written over whatever the table holds
init_db_NoDrop(db) == ExecuteMany(db, initial_data)

init_db(db) == ExecuteMany(DropTable(db), initial_data)

\* a rowid without AUTOINCREMENT: one more than the largest rowid present
NextRowid_NoAutoincrement(db) == SetMax(DOMAIN db.table) + 1

\* AUTOINCREMENT: one more than the largest rowid the table ever held
NextRowid(db) == Max(db.seq, SetMax(DOMAIN db.table)) + 1

\* INSERT without an id
Insert(db, r, created, updated) ==
    InsertWithId(db, Row(NextRowid(db), r, created, updated))

\* SELECT * FROM recipes WHERE id = ?  followed by fetchone()
SelectById(db, id) == IF id \in DOMAIN db.table THEN db.table[id] ELSE None

RECURSIVE RowsFrom(_, _)
RowsFrom(tbl, ids) ==
    IF ids = {} THEN <<>>
    ELSE LET m == CHOOSE i \in ids : \A j \in ids : i <= j
         IN  <<tbl[m]>> \o RowsFrom(tbl, ids \ {m})

\* SELECT * FROM recipes  followed by fetchall(): the rows in rowid order
SelectAll(db) == RowsFrom(db.table, DOMAIN db.table)

\* UPDATE ... WHERE id = ?  (no row matches: nothing changes)
UpdateById(db, id, r, updated) ==
    [db EXCEPT !.table =
        IF id \in DOMAIN db.table
        THEN [db.table EXCEPT ![id] =
                 Row(id, r, db.table[id].created_at, updated)]
        ELSE db.table]

\* DELETE FROM recipes WHERE id = ?
DeleteById(db, id) ==
    [db EXCEPT !.table = [i \in DOMAIN db.table \ {id} |-> db.table[i]]]

\* datetime.now() is read at sub-second precision and strftime
\* ('%Y-%m-%d %H:%M:%S') keeps the whole seconds; the fixed-width pattern
\* orders as the instants do, so a timestamp is kept as its second
strftime(t) == t \div TicksPerSecond

get_current_time == strftime(clock)

\* the instants the model lets the wall clock show: one within a second and
\* the start of the next second
ClockReadings ==
    {ClockStart * TicksPerSecond + 1, (ClockStart + 1) * TicksPerSecond}

----------------------------------------------------------------------------
(* The route handlers, each as the outcome of one whole call: the database *)
(* it leaves, its response, and whether its connection is still open when  *)
(* it returns.  `f` numbers the storage statement of the call that raises  *)
(* (0: none does).                                                         *)

Outcome(db, r, open) == [db |-> db, resp |-> r, open |-> open]

NotFound == [status |-> 404, detail |-> "Recipe not found"]

ServerError == [status |-> 500]

NoResponse == [status |-> 0]

\* GET /recipes
get_recipes(db, f) ==
    IF f = 1 THEN Outcome(db, ServerError, TRUE)            \* SELECT raises
    ELSE Outcome(db, [status |-> 200, recipes |-> SelectAll(db)], FALSE)

\* create_recipe without conn.commit(): the handler reads its own insert
\* back, and close() rolls it back
create_recipe_NoCommit(db, recipe, now, f) ==
    LET db2 == Insert(db, recipe, now, now)
    IN  Outcome(db,
                [status |-> 200, message |-> "Recipe successfully created!",
                 recipe |-> <<SelectById(db2, NextRowid(db))>>],
                FALSE)

\* POST /recipes: the statements are INSERT (1), commit (2), SELECT (3),
\* all inside try ... finally: conn.close()
create_recipe(db, recipe, now, f) ==
    LET new_id == NextRowid(db)
        db2    == Insert(db, recipe, now, now)
    IN  IF f = 1 \/ ~FitsSqliteInt(recipe.cost)
        THEN Outcome(db, ServerError, FALSE)
        ELSE IF f = 2 THEN Outcome(db, ServerError, FALSE)  \* close rolls back
        ELSE IF f = 3 THEN Outcome(db2, ServerError, FALSE)
        ELSE Outcome(db2,
                     [status |-> 200, message |-> "Recipe successfully created!",
                      recipe |-> <<SelectById(db2, new_id)>>],
                     FALSE)

\* GET /recipes/{recipe_id}
get_recipe_detail(db, recipe_id, f) ==
    IF f = 1 THEN Outcome(db, ServerError, TRUE)            \* SELECT raises
    ELSE LET recipe == SelectById(db, recipe_id)
         IN  IF recipe = None
             THEN Outcome(db, NotFound, FALSE)
             ELSE Outcome(db,
                          [status |-> 200, message |-> "Recipe details by id",
                           recipe |-> <<recipe>>],
                          FALSE)

\* update_recipe without the existence check
update_recipe_NoCheck(db, recipe_id, recipe_update, now, f) ==
    LET db2 == UpdateById(db, recipe_id, recipe_update, now)
    IN  Outcome(db2,
                [status |-> 200, message |-> "Recipe successfully updated!",
                 recipe |-> <<SelectById(db2, recipe_id)>>],
                FALSE)

\* PATCH /recipes/{recipe_id}: SELECT (1) before the try; UPDATE (2),
\* commit (3), SELECT (4) inside try ... finally: conn.close()
update_recipe(db, recipe_id, recipe_update, now, f) ==
    LET existing == SelectById(db, recipe_id)
        db2      == UpdateById(db, recipe_id, recipe_update, now)
    IN  IF f = 1 THEN Outcome(db, ServerError, TRUE)
        ELSE IF existing = None THEN Outcome(db, NotFound, FALSE)
        ELSE IF f = 2 \/ ~FitsSqliteInt(recipe_update.cost)
        THEN Outcome(db, ServerError, FALSE)
        ELSE IF f = 3 THEN Outcome(db, ServerError, FALSE)  \* close rolls back
        ELSE IF f = 4 THEN Outcome(db2, ServerError, FALSE)
        ELSE Outcome(db2,
                     [status |-> 200, message |-> "Recipe successfully updated!",
                      recipe |-> <<SelectById(db2, recipe_id)>>],
                     FALSE)

\* delete_recipe without conn.commit(): close() rolls the DELETE back
delete_recipe_NoCommit(db, recipe_id, f) ==
    IF SelectById(db, recipe_id) = None THEN Outcome(db, NotFound, FALSE)
    ELSE Outcome(db,
                 [status |-> 200, message |-> "Recipe successfully removed!"],
                 FALSE)

\* DELETE /recipes/{recipe_id}: SELECT (1), DELETE (2), commit (3), no try
delete_recipe(db, recipe_id, f) ==
    IF f = 1 THEN Outcome(db, ServerError, TRUE)
    ELSE IF SelectById(db, recipe_id) = None THEN Outcome(db, NotFound, FALSE)
    ELSE IF f \in {2, 3} THEN Outcome(db, ServerError, TRUE)
    ELSE Outcome(DeleteById(db, recipe_id),
                 [status |-> 200, message |-> "Recipe successfully removed!"],
                 FALSE)

----------------------------------------------------------------------------
(* The requests the model sends.                                           *)

Int64MaxPlus1 ==
    <<"9","2","2","3","3","7","2","0","3","6","8","5","4","7","7","5","8","0","8">>

BodyA ==
    [title |-> JStr(<<"T">>), making_time |-> JStr(<<"10 min">>),
     serves |-> JStr(<<"2">>), ingredients |-> JStr(<<"a", ",", "b">>),
     cost |-> JInt(<<"5">>)]

BodyB ==
    [title |-> JStr(<<"U">>), making_time |-> JStr(<<"20 min">>),
     serves |-> JStr(<<"3">>), ingredients |-> JStr(<<"c">>),
     cost |-> JInt(Int64Max)]

Without(body, f) == [g \in DOMAIN body \ {f} |-> body[g]]

\* cost as a string, numeral or not
StringCostBodies ==
    {[BodyA EXCEPT !.cost = JStr(<<"5">>)],
     [BodyA EXCEPT !.cost = JStr(<<"a", "b", "c">>)]}

MissingFieldBodies == {Without(BodyA, f) : f \in Fields}

\* cost an integer one past the 64-bit range
OverflowBodies == {[BodyA EXCEPT !.cost = JInt(Int64MaxPlus1)]}

\* the bodies the model sends to POST /recipes ...
CreateBodies ==
    {BodyA} \cup StringCostBodies \cup MissingFieldBodies \cup OverflowBodies

\* ... and to PATCH /recipes/{id}
UpdateBodies == {BodyB} \cup OverflowBodies

\* the ids in request paths: a seed id, the ids create can issue, and one
\* that is never issued
PathIds == 2..(MaxId + 1)

DB == [table |-> table, seq |-> seq]

----------------------------------------------------------------------------
(* The actions.                                                            *)

Threads == 1..NumThreads

IdleThread == [pc |-> "idle"]

Apply(r, out) ==
    /\ req' = r
    /\ table' = out.db.table
    /\ seq' = out.db.seq
    /\ resp' = out.resp
    /\ connOpen' = out.open
    /\ everPresent' = everPresent \cup DOMAIN out.db.table
    /\ removed' = IF r.op = "delete" /\ out.resp.status = 200
                  THEN removed \cup {r.id} ELSE removed
    /\ UNCHANGED <<clock, thr>>

\* a body the RecipeCreate model rejects never reaches the handler
Reject(r) ==
    /\ req' = r
    /\ resp' = validation_exception_handler(r.body)
    /\ connOpen' = FALSE
    /\ UNCHANGED <<table, seq, clock, everPresent, removed, thr>>

on_startup ==
    LET out == init_db(DB)
    IN  /\ table' = out.table
        /\ seq' = out.seq
        /\ req' = [op |-> "startup", found |-> DOMAIN table]
        /\ resp' = NoResponse
        /\ connOpen' = FALSE
        /\ everPresent' = DOMAIN out.table
        /\ removed' = {}
        /\ thr' = [t \in Threads |-> IdleThread]
        /\ UNCHANGED clock

GetRecipes(f) == Apply([op |-> "list"], get_recipes(DB, f))

CreateRecipe(body, f) ==
    LET r == [op |-> "create", body |-> body]
    IN  IF RecipeCreateValid(body)
        THEN /\ NextRowid(DB) <= MaxId
             /\ Apply(r, create_recipe(DB, RecipeCreate(body), get_current_time, f))
        ELSE Reject(r)

GetRecipeDetail(id, f) ==
    Apply([op |-> "get", id |-> id], get_recipe_detail(DB, id, f))

UpdateRecipe(id, body, f) ==
    LET r == [op |-> "update", id |-> id, body |-> body]
    IN  IF RecipeCreateValid(body)
        THEN Apply(r, update_recipe(DB, id, RecipeCreate(body), get_current_time, f))
        ELSE Reject(r)

DeleteRecipe(id, f) ==
    Apply([op |-> "delete", id |-> id], delete_recipe(DB, id, f))

\* the wall clock moves on ...
Tick ==
    /\ \E t \in ClockReadings : t > clock /\ clock' = t
    /\ req' = [op |-> "tick"]
    /\ UNCHANGED <<table, seq, resp, connOpen, everPresent, removed, thr>>

\* ... and, being the local civil time, is set back (the end of daylight
\* saving time, a correction of the system time)
ClockSetBack ==
    /\ \E t \in ClockReadings : t < clock /\ clock' = t
    /\ req' = [op |-> "setback"]
    /\ UNCHANGED <<table, seq, resp, connOpen, everPresent, removed, thr>>

Init ==
    LET out == init_db([table |-> EmptyTable, seq |-> 0])
    IN  /\ table = out.table
        /\ seq = out.seq
        /\ clock \in ClockReadings
        /\ req = [op |-> "startup", found |-> {}]
        /\ resp = NoResponse
        /\ connOpen = FALSE
        /\ everPresent = DOMAIN out.table
        /\ removed = {}
        /\ thr = [t \in Threads |-> IdleThread]

Next ==
    \/ on_startup
    \/ GetRecipes(0)
    \/ \E body \in CreateBodies : CreateRecipe(body, 0)
    \/ \E id \in PathIds : GetRecipeDetail(id, 0)
    \/ \E id \in PathIds, body \in UpdateBodies : UpdateRecipe(id, body, 0)
    \/ \E id \in PathIds : DeleteRecipe(id, 0)
    \/ Tick
    \/ ClockSetBack

Spec == Init /\ [][Next]_vars

----------------------------------------------------------------------------
(* SpecFault: one request at a time, and any storage statement of a        *)
(* handler may raise (the database locked or unwritable).                  *)

\* the statement of a call that raises (0: none)
Faults == 0..4

NextFault ==
    \/ on_startup
    \/ \E f \in Faults : GetRecipes(f)
    \/ \E body \in CreateBodies, f \in Faults : CreateRecipe(body, f)
    \/ \E id \in PathIds, f \in Faults : GetRecipeDetail(id, f)
    \/ \E id \in PathIds, body \in UpdateBodies, f \in Faults :
          UpdateRecipe(id, body, f)
    \/ \E id \in PathIds, f \in Faults : DeleteRecipe(id, f)

SpecFault == Init /\ [][NextFault]_vars

----------------------------------------------------------------------------
(* SpecConc: the handlers run on worker threads, each on its own           *)
(* connection; a step is one SQL statement with its commit, which SQLite   *)
(* makes atomic.                                                           *)

\* the ids in the request paths of the concurrent requests: a seed id and
\* the first id create issues
ConcIds == {2, 3}

Done(t, op, id, r) ==
    thr' = [thr EXCEPT ![t] = [pc |-> "idle", op |-> op, id |-> id, resp |-> r]]

SetDB(db) ==
    /\ table' = db.table
    /\ seq' = db.seq
    /\ everPresent' = everPresent \cup DOMAIN db.table

Inserting == {t \in Threads : thr[t].pc = "create_insert"}

\* GET /recipes on thread t
T_get_recipes(t) ==
    /\ thr[t].pc = "idle"
    /\ Done(t, "list", 0, get_recipes(DB, 0).resp)
    /\ UNCHANGED <<table, seq, clock, req, resp, connOpen, everPresent, removed>>

\* GET /recipes/{id} on thread t
T_get_recipe_detail(t, id) ==
    /\ thr[t].pc = "idle"
    /\ Done(t, "get", id, get_recipe_detail(DB, id, 0).resp)
    /\ UNCHANGED <<table, seq, clock, req, resp, connOpen, everPresent, removed>>

\* POST /recipes on thread t: validation, get_db(), get_current_time()
T_create_begin(t, body) ==
    /\ thr[t].pc = "idle"
    /\ IF RecipeCreateValid(body)
       THEN /\ NextRowid(DB) + Cardinality(Inserting) <= MaxId
            /\ thr' = [thr EXCEPT ![t] =
                          [pc |-> "create_insert", op |-> "create", id |-> 0,
                           recipe |-> RecipeCreate(body),
                           now |-> get_current_time]]
       ELSE Done(t, "create", 0, validation_exception_handler(body))
    /\ UNCHANGED <<table, seq, clock, req, resp, connOpen, everPresent, removed>>

\* ... INSERT, commit, lastrowid
T_create_insert(t) ==
    /\ thr[t].pc = "create_insert"
    /\ IF FitsSqliteInt(thr[t].recipe.cost)
       THEN /\ SetDB(Insert(DB, thr[t].recipe, thr[t].now, thr[t].now))
            /\ thr' = [thr EXCEPT ![t] =
                          [pc |-> "create_select", op |-> "create", id |-> 0,
                           new_id |-> NextRowid(DB)]]
       ELSE /\ Done(t, "create", 0, ServerError)
            /\ UNCHANGED <<table, seq, everPresent>>
    /\ UNCHANGED <<clock, req, resp, connOpen, removed>>

\* ... the re-read by the new id, and the response
T_create_select(t) ==
    /\ thr[t].pc = "create_select"
    /\ Done(t, "create", 0,
            [status |-> 200, message |-> "Recipe successfully created!",
             recipe |-> <<SelectById(DB, thr[t].new_id)>>])
    /\ UNCHANGED <<table, seq, clock, req, resp, connOpen, everPresent, removed>>

\* PATCH /recipes/{id} on thread t: validation, the existence check,
\* get_current_time()
T_update_begin(t, id, body) ==
    /\ thr[t].pc = "idle"
    /\ IF ~RecipeCreateValid(body)
       THEN Done(t, "update", id, validation_exception_handler(body))
       ELSE IF SelectById(DB, id) = None
       THEN Done(t, "update", id, NotFound)
       ELSE thr' = [thr EXCEPT ![t] =
                       [pc |-> "update_exec", op |-> "update", id |-> id,
                        recipe |-> RecipeCreate(body), now |-> get_current_time]]
    /\ UNCHANGED <<table, seq, clock, req, resp, connOpen, everPresent, removed>>

\* ... UPDATE, commit
T_update_exec(t) ==
    /\ thr[t].pc = "update_exec"
    /\ IF FitsSqliteInt(thr[t].recipe.cost)
       THEN /\ SetDB(UpdateById(DB, thr[t].id, thr[t].recipe, thr[t].now))
            /\ thr' = [thr EXCEPT ![t] =
                          [pc |-> "update_select", op |-> "update",
                           id |-> thr[t].id]]
       ELSE /\ Done(t, "update", thr[t].id, ServerError)
            /\ UNCHANGED <<table, seq, everPresent>>
    /\ UNCHANGED <<clock, req, resp, connOpen, removed>>

\* ... the re-read, and the response
T_update_select(t) ==
    /\ thr[t].pc = "update_select"
    /\ Done(t, "update", thr[t].id,
            [status |-> 200, message |-> "Recipe successfully updated!",
             recipe |-> <<SelectById(DB, thr[t].id)>>])
    /\ UNCHANGED <<table, seq, clock, req, resp, connOpen, everPresent, removed>>

\* DELETE /recipes/{id} on thread t: the existence check
T_delete_begin(t, id) ==
    /\ thr[t].pc = "idle"
    /\ IF SelectById(DB, id) = None
       THEN Done(t, "delete", id, NotFound)
       ELSE thr' = [thr EXCEPT ![t] =
                       [pc |-> "delete_exec", op |-> "delete", id |-> id]]
    /\ UNCHANGED <<table, seq, clock, req, resp, connOpen, everPresent, removed>>

\* ... DELETE, commit, and the response
T_delete_exec(t) ==
    /\ thr[t].pc = "delete_exec"
    /\ SetDB(DeleteById(DB, thr[t].id))
    /\ removed' = removed \cup {thr[t].id}
    /\ Done(t, "delete", thr[t].id,
            [status |-> 200, message |-> "Recipe successfully removed!"])
    /\ UNCHANGED <<clock, req, resp, connOpen>>

NextConc ==
    \E t \in Threads :
        \/ T_get_recipes(t)
        \/ \E id \in ConcIds : T_get_recipe_detail(t, id)
        \/ \E body \in {BodyA} \cup OverflowBodies : T_create_begin(t, body)
        \/ T_create_insert(t)
        \/ T_create_select(t)
        \/ \E id \in ConcIds, body \in UpdateBodies : T_update_begin(t, id, body)
        \/ T_update_exec(t)
        \/ T_update_select(t)
        \/ \E id \in ConcIds : T_delete_begin(t, id)
        \/ T_delete_exec(t)

SpecConc == Init /\ [][NextConc]_vars

----------------------------------------------------------------------------
(* Properties.                                                             *)

\* a body that is valid as the data model states it: the five fields, the
\* four texts JSON strings and cost a JSON integer
WellTyped(body) ==
    /\ DOMAIN body = Fields
    /\ \A f \in Fields \ {"cost"} : body[f].t = "str"
    /\ body["cost"].t = "int"

InRange(body) == FitsSqliteInt(body["cost"].v)

Echoes(row, body) ==
    /\ row.title = body["title"].v
    /\ row.making_time = body["making_time"].v
    /\ row.serves = body["serves"].v
    /\ row.ingredients = body["ingredients"].v
    /\ row.cost = body["cost"].v

SeedTable == [i \in {1, 2} |-> initial_data[i]]

\* C1: every id a successful create returns is greater than every id that
\* was in the table since the last startup, so no id is issued twice.
C1_FreshIds ==
    [][(req'.op = "create" /\ resp'.status = 200)
          => /\ resp'.recipe[1] # None
             /\ \A i \in everPresent : resp'.recipe[1].id > i]_vars

\* a create that follows the removal of the row with the largest id
C1_Witness ==
    /\ req.op = "create"
    /\ resp.status = 200
    /\ (resp.recipe[1].id - 1) \in removed
    /\ SetMax(DOMAIN table \ {resp.recipe[1].id}) < resp.recipe[1].id - 1

\* C2 (as claimed): POST /recipes with cost a JSON string, or with one of
\* the five fields missing, answers 400 "Recipe creation failed!" and
\* leaves the table as it was.
C2_StringCostRejected ==
    [][(/\ req'.op = "create"
        /\ \/ DOMAIN req'.body # Fields
           \/ req'.body["cost"].t = "str")
          => /\ resp'.status = 400
             /\ resp'.message = "Recipe creation failed!"
             /\ table' = table]_vars

\* C4: once a DELETE has removed an id, every later GET and DELETE of that
\* id answers 404, whatever requests came in between.
C4_RemovedStaysGone ==
    [][(req'.op \in {"get", "delete"} /\ req'.id \in removed)
          => resp' = NotFound]_vars

\* a DELETE of a removed id after a later create added a row
C4_Witness ==
    /\ req.op = "delete"
    /\ req.id \in removed
    /\ resp.status = 404
    /\ \E i \in DOMAIN table : i > req.id

C6_StartupReseeds ==
    [][/\ req'.op = "startup" => (table' = SeedTable /\ DOMAIN table' = {1, 2})
       /\ (req.op = "startup" /\ req'.op = "list")
             => resp' = [status |-> 200, recipes |-> initial_data]]_vars

\* a startup that found a seed row removed and a created row in the table
C6_Witness ==
    /\ req.op = "startup"
    /\ 2 \notin req.found
    /\ 3 \in req.found
    /\ table = SeedTable
    /\ seq = 2

\* C7 (as claimed): every valid create payload adds exactly one row and
\* returns it: an id not used before, created_at = updated_at, the five
\* fields echoed, the other rows unchanged.
CreateAddsRow(body) ==
    /\ resp'.status = 200
    /\ Len(resp'.recipe) = 1
    /\ resp'.recipe[1] # None
    /\ LET r == resp'.recipe[1]
       IN  /\ r.id \notin everPresent
           /\ DOMAIN table' = DOMAIN table \cup {r.id}
           /\ r.id \notin DOMAIN table
           /\ table'[r.id] = r
           /\ r.created_at = r.updated_at
           /\ Echoes(r, body)
           /\ \A i \in DOMAIN table : table'[i] = table[i]

C7_EveryValidPayload ==
    [][(req'.op = "create" /\ WellTyped(req'.body))
          => CreateAddsRow(req'.body)]_vars

\* C7 (amended): every valid create payload whose cost fits a signed
\* 64-bit integer adds exactly one row and returns it: an id not used
\* before, created_at = updated_at, the five fields echoed, the other rows
\* unchanged.
C7_ValidPayloadInRange ==
    [][(req'.op = "create" /\ WellTyped(req'.body) /\ InRange(req'.body))
          => CreateAddsRow(req'.body)]_vars

\* a create into a table from which a row was removed
C7_Witness ==
    /\ req.op = "create"
    /\ WellTyped(req.body)
    /\ resp.status = 200
    /\ removed # {}
    /\ Cardinality(DOMAIN table) >= 2

\* C3 (as claimed, for the bodies whose cost fits 64 bits): a PATCH of an
\* id in the table with a valid body sets the five fields, sets updated_at
\* to a value not below the one it had, keeps id and created_at and every
\* other row, and a GET of the id then shows exactly that row.
C3_UpdateFrame ==
    [][(/\ req'.op = "update"
        /\ req'.id \in DOMAIN table
        /\ WellTyped(req'.body)
        /\ InRange(req'.body))
          => /\ resp'.status = 200
             /\ DOMAIN table' = DOMAIN table
             /\ LET old == table[req'.id]
                    new == table'[req'.id]
                IN  /\ Echoes(new, req'.body)
                    /\ new.updated_at >= old.updated_at
                    /\ new.id = old.id
                    /\ new.created_at = old.created_at
                    /\ resp'.recipe = <<new>>
                    /\ get_recipe_detail([table |-> table', seq |-> seq'],
                                         req'.id, 0).resp.recipe = <<new>>
             /\ \A i \in DOMAIN table \ {req'.id} : table'[i] = table[i]]_vars

\* C8 (as claimed): every stored row has updated_at >= created_at.
C8_UpdatedNotBeforeCreated ==
    \A i \in DOMAIN table : table[i].updated_at >= table[i].created_at

\* C9 (as claimed): no handler call ends with its connection still open,
\* also when a storage statement of the call raises.
C9_ConnectionReleased == connOpen = FALSE

\* C10 (as claimed): a PATCH that answers "Recipe successfully updated!"
\* carries the row with the requested id, never an absent row, under any
\* interleaving of the concurrent requests.
C10_UpdateCarriesRow ==
    \A t \in Threads :
        (/\ thr[t].pc = "idle"
         /\ "resp" \in DOMAIN thr[t]
         /\ thr[t].op = "update"
         /\ thr[t].resp.status = 200)
            => /\ thr[t].resp.recipe[1] # None
               /\ thr[t].resp.recipe[1].id = thr[t].id

====
